---- MODULE Spec2Model ----
(***************************************************************************)
(* Model of the career-page monitor (src/src): the ThreadManager and its   *)
(* PageMonitorThread tasks (thread_manager.py), the Redis lock and         *)
(* seen-set (redis_manager.py), the Firestore page record                  *)
(* (firebase_manager.py) and the list of new records that                  *)
(* JobScraper.scrape_jobs returns (scraper.py).                            *)
(*                                                                         *)
(* A posting is identified with its fingerprint (Job.get_hash); a page's   *)
(* markup is the set of postings its cards yield.  Time is abstract: a     *)
(* Redis key with a TTL may run out at any moment it exists, and a page's  *)
(* interval may elapse at any moment after a check.  Firestore calls, the  *)
(* fetch, the extraction and the notification callback may fail; Redis     *)
(* answers every command (no except RedisError branch is taken).           *)
(***************************************************************************)
EXTENDS Integers, FiniteSets, Sequences

\* ----------------------------------------------------------------- bounds
NumTargets == 3
NumJobs == 2
MaxTasks == 3
MaxEvents == 2

\* max_threads of ThreadManager (MAX_THREADS in the environment)
MaxThreads == 2

\* The longest text of a posting's field.
MaxLen == 2

\* The most cards soup.select gives on a page.
MaxCards == 3

\* The longest lock_duration (a page's interval), in seconds.
MaxDuration == 2

\* job_ttl, the life of a seen-set in seconds (scaled).
JobTtl == 2

\* The most interval= arguments of one /add.
MaxArgs == 2

\* The tasks that record checks of one page, and the most failed checks.
NumCallers == 3
MaxFailures == 3

Targets == 1..NumTargets
Jobs == 1..NumJobs
Tasks == 1..MaxTasks
\* no entry in self.threads, no scrape_lock key; the page of a free slot
NoTask == 0
NoPage == 0

VARIABLES
    \* config store (Firestore collection career_pages), one record per target
    status,        \* "active" | "paused" | "absent" (no record with this id)
    lastCheck,     \* "never" | "recent" (younger than interval) | "old"
    lastSuccess,   \* "never" | "current" (= last_check) | "stale" (< last_check)
    errCount,      \* error_count
    total,         \* jobs_found_total
    \* Redis
    lock,          \* scrape_lock:<id>: NoTask when the key is absent, else the task that set it
    seen,          \* seen_jobs:<id>: the set of fingerprints (absent = empty)
    \* the monitored web page
    markup,        \* the postings the page shows now
    \* notification sink: the batches that held a posting since its presence last changed
    notifCount,
    \* ThreadManager
    phase,         \* "init" (constructed) | "on" (running = True) | "stopping" (stop() holds
                   \* self.lock, running = False) | "off" (stop() has returned)
    threads,       \* self.threads / self.stop_events: target -> task, NoTask when no entry
    syncPc,        \* "none" | "read" | "apply" | "sleep" | "exited"
    activeRead,    \* active_page_ids read by the pass in progress
    cmd,           \* the bot command in progress: <<"none", 0>> | <<"pause", p>> | <<"add", p>>
    \* PageMonitorThread objects; a slot with pc "idle" holds no thread
    pc,            \* where the thread is in run() / _scrape_and_notify
    page,          \* self.page.id
    stopEv,        \* self.stop_event
    local,         \* the locals of _scrape_and_notify
    \* the failed calls, key expiries, page edits and bot commands so far
    events,
    \* one call of the scraper on its own: its arguments with what the site
    \* answers, and what the call gave
    input,
    output

storeVars == <<status, lastCheck, lastSuccess, errCount, total>>
redisVars == <<lock, seen>>
mgrVars == <<phase, threads, syncPc, activeRead, cmd>>
taskVars == <<pc, page, stopEv, local>>
vars == <<status, lastCheck, lastSuccess, errCount, total, lock, seen, markup,
          notifCount, phase, threads, syncPc, activeRead, cmd,
          pc, page, stopEv, local, events, input, output>>

\* ---------------------------------------------------------------- helpers

\* Something outside the monitor happens: a call fails, a Redis key runs out,
\* the site changes its page, a user sends a command.  A run has at most
\* MaxEvents of these.
Event ==
    /\ events < MaxEvents
    /\ events' = events + 1

\* A call to Firestore, the site or the callback works (ok) or fails.
Outcome(ok) == IF ok THEN events' = events ELSE Event

\* The positions of _scrape_and_notify between a successful acquire_page_lock
\* and the return.
LockedPcs == {"getseen", "scrape", "update", "addseen", "incr", "notify",
              "release", "hread", "hwrite", "hrelease"}

\* The locals of _scrape_and_notify outside a call of it: acquired (the
\* answer of acquire_page_lock: "none" | "won" | "lost"), seen_hashes,
\* new_jobs, fetched (how scrape_jobs went: "none" | "ok" | "miss" |
\* "nofetch" | "raise") and the error_count that update_last_check read.
NoLocals ==
    [acquired |-> "none", seen_hashes |-> {}, new_jobs |-> {},
     fetched |-> "none", error_count |-> 0]

Min(a, b) == IF a < b THEN a ELSE b

\* ------------------------------------------------------------------- Init
InitRest ==
    /\ errCount = [p \in Targets |-> 0]
    /\ total = [p \in Targets |-> 0]
    /\ lock = [p \in Targets |-> NoTask]
    /\ seen = [p \in Targets |-> {}]
    /\ markup = [p \in Targets |-> Jobs]
    /\ notifCount = [p \in Targets |-> [j \in Jobs |-> 0]]
    /\ phase = "init"
    /\ threads = [p \in Targets |-> NoTask]
    /\ syncPc = "none"
    /\ activeRead = {}
    /\ cmd = <<"none", 0>>
    /\ pc = [t \in Tasks |-> "idle"]
    /\ page = [t \in Tasks |-> NoPage]
    /\ stopEv = [t \in Tasks |-> FALSE]
    /\ local = [t \in Tasks |-> NoLocals]

\* No call of the scraper on its own.
NoCall ==
    /\ input = [op |-> "none"]
    /\ output = [done |-> "no"]

\* The store holds one page when the manager is constructed and the run has
\* up to MaxEvents outside events ...
Init ==
    /\ status = [p \in Targets |-> IF p = 1 THEN "active" ELSE "absent"]
    /\ lastCheck = [p \in Targets |-> "never"]
    /\ lastSuccess = [p \in Targets |-> "never"]
    /\ events = 0
    /\ InitRest
    /\ NoCall

\* ... or a page for every target, and one event less.
InitAll ==
    /\ status = [p \in Targets |-> "active"]
    /\ lastCheck = [p \in Targets |-> "never"]
    /\ lastSuccess = [p \in Targets |-> "never"]
    /\ events = MaxEvents - 1
    /\ InitRest
    /\ NoCall

\* ... or as many pages as max_threads, each checked with success less than
\* its interval ago, and room in the store for one more.
InitAdmit ==
    /\ status = [p \in Targets |-> IF p <= MaxThreads THEN "active" ELSE "absent"]
    /\ lastCheck = [p \in Targets |-> IF p <= MaxThreads THEN "recent" ELSE "never"]
    /\ lastSuccess = [p \in Targets |-> IF p <= MaxThreads THEN "current" ELSE "never"]
    /\ events = 0
    /\ InitRest
    /\ NoCall

\* ------------------------------------------------------------ pure parts

\* (variant) scrape_jobs without the test of line 290.
ScrapeJobs_NoFilter(html, seenHashes) == html

\* JobScraper.scrape_jobs on fetched markup: the records of the page's cards
\* whose hash is not in seen_hashes (html = the postings of the cards).
ScrapeJobs(html, seenHashes) == {j \in html : j \notin seenHashes}

\* (variant) a cycle counts as a success when it found a new posting.
Success_NonEmpty(jobs) == jobs # {}

\* thread_manager.py:97  success = len(new_jobs) >= 0
Success(jobs) == Cardinality(jobs) >= 0

\* FirebaseManager.update_last_check with success=True: one update() call that
\* sets last_check, last_success and error_count = 0; update_career_page
\* swallows a store failure.
UpdateLastCheckOk(p, ok) ==
    /\ lastCheck' = IF ok THEN [lastCheck EXCEPT ![p] = "recent"] ELSE lastCheck
    /\ lastSuccess' = IF ok THEN [lastSuccess EXCEPT ![p] = "current"] ELSE lastSuccess
    /\ errCount' = IF ok THEN [errCount EXCEPT ![p] = 0] ELSE errCount

\* The update() of update_last_check with success=False, error_count having
\* been read as n: last_check moves on, last_success stays behind.
UpdateLastCheckFail(p, n, ok) ==
    /\ lastCheck' = IF ok THEN [lastCheck EXCEPT ![p] = "recent"] ELSE lastCheck
    /\ lastSuccess' = IF ok /\ lastSuccess[p] = "current"
                      THEN [lastSuccess EXCEPT ![p] = "stale"] ELSE lastSuccess
    /\ errCount' = IF ok THEN [errCount EXCEPT ![p] = n + 1] ELSE errCount

\* PageMonitorThread._should_scrape on the record just read
ShouldScrape(p) == lastCheck[p] \in {"never", "old"}

\* ------------------------------------------------- PageMonitorThread.run

\* (variant) the loop condition is True: the stop event is not looked at.
LoopEnds_NoStop(t, ok) == ~ok \/ status[page[t]] # "active"

\* (variant) the loop does not look at the status of the record it read.
LoopEnds_NoStatus(t, ok) == stopEv[t] \/ ~ok

\* One pass of the while loop up to the call of _scrape_and_notify: the stop
\* event, the read of the live record, the status test and _should_scrape.
\* An iteration that is not due ends in stop_event.wait and comes back here.
\* get_career_page gives None when the read fails or no record exists.
LoopEnds(t, ok) == stopEv[t] \/ ~ok \/ status[page[t]] # "active"

\* (variant) one stop event is shared by all threads and a thread sets it
\* when its loop ends.
ThreadEnds_SharedEvent(t) ==
    /\ pc' = [pc EXCEPT ![t] = IF threads[page[t]] = t THEN "done" ELSE "idle"]
    /\ page' = [page EXCEPT ![t] = IF threads[page[t]] = t THEN page[t] ELSE NoPage]
    /\ stopEv' = [u \in Tasks |-> pc[u] # "idle" /\ (u # t \/ threads[page[t]] = t)]

\* run() returns.  A thread object that self.threads still holds stays there
\* ("done"); one that no map holds is garbage and frees its slot.
ThreadEnds(t) ==
    IF threads[page[t]] = t
    THEN /\ pc' = [pc EXCEPT ![t] = "done"]
         /\ UNCHANGED <<page, stopEv>>
    ELSE /\ pc' = [pc EXCEPT ![t] = "idle"]
         /\ page' = [page EXCEPT ![t] = NoPage]
         /\ stopEv' = [stopEv EXCEPT ![t] = FALSE]

TopCheck(t, ok) ==
    /\ pc[t] = "top"
    /\ IF stopEv[t] THEN ok /\ events' = events ELSE Outcome(ok)
    /\ IF LoopEnds(t, ok)
       THEN ThreadEnds(t)
       ELSE /\ pc' = [pc EXCEPT ![t] =
                   IF ShouldScrape(page[t]) THEN "acquire" ELSE "top"]
            /\ UNCHANGED <<page, stopEv>>
    /\ local' = [local EXCEPT ![t] = NoLocals]
    /\ UNCHANGED <<storeVars, redisVars, markup, notifCount, mgrVars>>
    /\ UNCHANGED <<input, output>>

\* (variant) SET without NX: the key is written whether or not it exists.
AcquireResult_NoNX(t) == TRUE

\* RedisManager.acquire_page_lock: SET key "locked" NX EX interval, one Redis
\* command; True when the key was set.
AcquireResult(t) == lock[page[t]] = NoTask

\* (variant) the early return passes through a release of the key.
ReturnUnlocked_Release(t) == lock' = [lock EXCEPT ![page[t]] = NoTask]

\* thread_manager.py:79-81: on False _scrape_and_notify returns at once.
ReturnUnlocked(t) == lock' = lock

AcquirePageLock(t) ==
    /\ pc[t] = "acquire"
    /\ IF AcquireResult(t)
       THEN /\ lock' = [lock EXCEPT ![page[t]] = t]
            /\ pc' = [pc EXCEPT ![t] = "getseen"]
            /\ local' = [local EXCEPT ![t].acquired = "won"]
       ELSE /\ ReturnUnlocked(t)
            /\ pc' = [pc EXCEPT ![t] = "top"]
            /\ local' = [local EXCEPT ![t].acquired = "lost"]
    /\ UNCHANGED <<storeVars, seen, markup, notifCount, mgrVars, page, stopEv,
                   events>>
    /\ UNCHANGED <<input, output>>

\* RedisManager.get_seen_jobs: SMEMBERS seen_jobs:<id>.
GetSeenJobs(t) ==
    /\ pc[t] = "getseen"
    /\ local' = [local EXCEPT ![t].seen_hashes = seen[page[t]]]
    /\ pc' = [pc EXCEPT ![t] = "scrape"]
    /\ UNCHANGED <<storeVars, redisVars, markup, notifCount, mgrVars, page,
                   stopEv, events>>
    /\ UNCHANGED <<input, output>>

\* The call of scrape_jobs: "ok" (markup fetched and cards selected), "miss"
\* (the detector found no container: scrape_jobs returns [], line 268-270),
\* "nofetch" (fetch_page gave None on both strategies: scrape_jobs returns
\* []), "raise" (an exception leaves scrape_jobs, e.g. from the parser or
\* from soup.select).
Scrape(t, res) ==
    /\ pc[t] = "scrape"
    /\ Outcome(res = "ok")
    /\ local' = [local EXCEPT
            ![t].new_jobs = IF res = "ok"
                            THEN ScrapeJobs(markup[page[t]], local[t].seen_hashes)
                            ELSE {},
            ![t].fetched = res]
    /\ pc' = [pc EXCEPT ![t] = IF res = "raise" THEN "hread" ELSE "update"]
    /\ UNCHANGED <<storeVars, redisVars, markup, notifCount, mgrVars, page,
                   stopEv>>
    /\ UNCHANGED <<input, output>>

\* (variant) the block of the new jobs is entered with an empty list too.
AfterUpdate_Always(jobs) == "addseen"

\* thread_manager.py:100, 117: if new_jobs: ... else: ...
AfterUpdate(jobs) == IF jobs # {} THEN "addseen" ELSE "release"

\* thread_manager.py:97-98: update_last_check(success=len(new_jobs) >= 0)
UpdateLastCheck(t, ok) ==
    /\ pc[t] = "update"
    /\ Outcome(ok)
    /\ IF Success(local[t].new_jobs)
       THEN UpdateLastCheckOk(page[t], ok)
       ELSE UpdateLastCheckFail(page[t], errCount[page[t]], ok)
    /\ pc' = [pc EXCEPT ![t] = AfterUpdate(local[t].new_jobs)]
    /\ UNCHANGED <<status, total, redisVars, markup, notifCount, mgrVars, page,
                   stopEv, local>>
    /\ UNCHANGED <<input, output>>

\* RedisManager.add_seen_jobs_bulk: SADD, then EXPIRE with job_ttl.
AddSeenJobsBulk(t) ==
    /\ pc[t] = "addseen"
    /\ seen' = [seen EXCEPT ![page[t]] = @ \cup local[t].new_jobs]
    /\ pc' = [pc EXCEPT ![t] = "incr"]
    /\ UNCHANGED <<storeVars, lock, markup, notifCount, mgrVars, page, stopEv,
                   local, events>>
    /\ UNCHANGED <<input, output>>

\* FirebaseManager.increment_jobs_found (the job_history documents written
\* next are read by no operation of the monitor and are not kept here).
IncrementJobsFound(t, ok) ==
    /\ pc[t] = "incr"
    /\ Outcome(ok)
    /\ total' = IF ok
                THEN [total EXCEPT ![page[t]] = @ + Cardinality(local[t].new_jobs)]
                ELSE total
    /\ pc' = [pc EXCEPT ![t] = "notify"]
    /\ UNCHANGED <<status, lastCheck, lastSuccess, errCount, redisVars, markup,
                   notifCount, mgrVars, page, stopEv, local>>
    /\ UNCHANGED <<input, output>>

\* _notify_new_jobs: one callback with the whole list; its exception is logged.
NotifyNewJobs(t, ok) ==
    /\ pc[t] = "notify"
    /\ Outcome(ok)
    /\ notifCount' = IF ok
          THEN [notifCount EXCEPT ![page[t]] =
                  [j \in Jobs |-> IF j \in local[t].new_jobs
                                  THEN Min(@[j] + 1, 2) ELSE @[j]]]
          ELSE notifCount
    /\ pc' = [pc EXCEPT ![t] = "release"]
    /\ UNCHANGED <<storeVars, redisVars, markup, mgrVars, page, stopEv, local>>
    /\ UNCHANGED <<input, output>>

\* RedisManager.release_page_lock: DEL key, whoever set it.  Then
\* _scrape_and_notify returns.
ReleasePageLock(t) ==
    /\ pc[t] \in {"release", "hrelease"}
    /\ lock' = [lock EXCEPT ![page[t]] = NoTask]
    /\ pc' = [pc EXCEPT ![t] = "top"]
    /\ local' = [local EXCEPT ![t] = NoLocals]
    /\ UNCHANGED <<storeVars, seen, markup, notifCount, mgrVars, page, stopEv,
                   events>>
    /\ UNCHANGED <<input, output>>

\* except-branch, update_last_check(success=False), its read of the record
\* (firebase_manager.py:118, outside any try): an exception here leaves
\* _scrape_and_notify and is caught by run(), which sleeps and loops.
HandlerRead(t, ok) ==
    /\ pc[t] = "hread"
    /\ Outcome(ok)
    /\ IF ok
       THEN /\ local' = [local EXCEPT ![t].error_count = errCount[page[t]]]
            /\ pc' = [pc EXCEPT ![t] = "hwrite"]
       ELSE /\ local' = [local EXCEPT ![t] = NoLocals]
            /\ pc' = [pc EXCEPT ![t] = "top"]
    /\ UNCHANGED <<storeVars, redisVars, markup, notifCount, mgrVars, page,
                   stopEv>>
    /\ UNCHANGED <<input, output>>

\* ... and its update() with error_count = the value read + 1.
HandlerWrite(t, ok) ==
    /\ pc[t] = "hwrite"
    /\ Outcome(ok)
    /\ UpdateLastCheckFail(page[t], local[t].error_count, ok)
    /\ pc' = [pc EXCEPT ![t] = "hrelease"]
    /\ UNCHANGED <<status, total, redisVars, markup, notifCount, mgrVars, page,
                   stopEv, local>>
    /\ UNCHANGED <<input, output>>

TaskStep(t) ==
    \/ \E ok \in BOOLEAN :
          \/ TopCheck(t, ok)
          \/ UpdateLastCheck(t, ok)
          \/ IncrementJobsFound(t, ok)
          \/ NotifyNewJobs(t, ok)
          \/ HandlerRead(t, ok)
          \/ HandlerWrite(t, ok)
    \/ \E res \in {"ok", "miss", "nofetch", "raise"} : Scrape(t, res)
    \/ AcquirePageLock(t)
    \/ GetSeenJobs(t)
    \/ AddSeenJobsBulk(t)
    \/ ReleasePageLock(t)

\* ------------------------------------------------------------ ThreadManager

Mapped == {p \in Targets : threads[p] # NoTask}

\* A slot is free for a new thread object when it holds none and no lock key
\* still carries its number.
FreeSlots == {t \in Tasks : pc[t] = "idle" /\ \A p \in Targets : lock[p] # t}

\* The place of x in S by ascending order, and the element at place k.
Rank(x, S) == Cardinality({y \in S : y <= x})
Nth(k, S) == CHOOSE x \in S : Rank(x, S) = k

\* _start_thread for the pages of S: each gets a new thread object (the free
\* slots in ascending order) at the top of run(), its stop event clear.
SlotOf(p, S) == Nth(Rank(p, S), FreeSlots)

\* _stop_thread for the pages of D (also the loop of stop()): the event is
\* set, the join waits at most 5 s and the entries are deleted whether or not
\* the thread has ended.  A thread that had ended is garbage from here on.
Unmap(D, S) ==
    /\ threads' = [p \in Targets |->
                      IF p \in D THEN NoTask
                      ELSE IF p \in S THEN SlotOf(p, S) ELSE threads[p]]
    /\ stopEv' = [t \in Tasks |->
                      IF \E p \in D : threads[p] = t THEN pc[t] # "done"
                      ELSE stopEv[t]]
    /\ pc' = [t \in Tasks |->
                      IF (\E p \in D : threads[p] = t) /\ pc[t] = "done" THEN "idle"
                      ELSE IF \E p \in S : SlotOf(p, S) = t THEN "top"
                      ELSE pc[t]]
    /\ page' = [t \in Tasks |->
                      IF (\E p \in D : threads[p] = t) /\ pc[t] = "done" THEN NoPage
                      ELSE IF \E p \in S : SlotOf(p, S) = t
                           THEN CHOOSE p \in S : SlotOf(p, S) = t
                      ELSE page[t]]

\* ThreadManager.start: running = True and the first _sync_threads pass; the
\* background loop follows it.  The application calls it once (main.py:154).
Start ==
    /\ phase = "init"
    /\ phase' = "on"
    /\ syncPc' = "read"
    /\ UNCHANGED <<storeVars, redisVars, markup, notifCount, threads, activeRead,
                   cmd, taskVars, events>>
    /\ UNCHANGED <<input, output>>

\* _sync_threads, its read of the store (outside self.lock):
\* get_active_career_pages gives [] when the query fails.  From "sleep" this
\* is the loop's time.sleep(60) ending: the pass runs without a look at
\* self.running.
SyncRead(ok) ==
    /\ syncPc \in {"read", "sleep"}
    /\ Outcome(ok)
    /\ activeRead' = IF ok THEN {p \in Targets : status[p] = "active"} ELSE {}
    /\ syncPc' = "apply"
    /\ UNCHANGED <<storeVars, redisVars, markup, notifCount, phase, threads, cmd,
                   taskVars>>
    /\ UNCHANGED <<input, output>>

\* (variant) the room under the cap is counted before the pass stops the
\* threads of the pages that are no longer active.
StartCount_BeforeStop ==
    LET cur == {p \in Targets : threads[p] # NoTask}
    IN IF Cardinality(activeRead \ cur) < MaxThreads - Cardinality(cur)
       THEN Cardinality(activeRead \ cur)
       ELSE MaxThreads - Cardinality(cur)

\* (variant) the start loop tests len(self.threads) < max_threads - 1.
StartCount_OffByOne ==
    LET kept == Cardinality({p \in activeRead : threads[p] # NoTask})
        want == Cardinality({p \in activeRead : threads[p] = NoTask})
        room == IF MaxThreads - 1 > kept THEN MaxThreads - 1 - kept ELSE 0
    IN IF want < room THEN want ELSE room

\* (variant) a pass that finds more active pages than max_threads stops the
\* running threads as well, to give the waiting pages their turn.
ToStop_MakeRoom ==
    IF Cardinality(activeRead) > MaxThreads THEN Mapped ELSE Mapped \ activeRead

\* The pages a pass stops and the number it starts: the active pages without
\* an entry, while len(self.threads) < max_threads.
ToStop == Mapped \ activeRead
ToStart == activeRead \ Mapped
StartCount ==
    Min(Cardinality(ToStart), MaxThreads - Cardinality(Mapped \cap activeRead))

\* _sync_threads under self.lock.  S is the set of pages started; which pages
\* come first in the store's answer is not fixed.  (A pass needs a free slot
\* for every thread it starts.)
SyncApply(S) ==
    /\ syncPc = "apply"
    /\ phase # "stopping"
    /\ S \subseteq ToStart
    /\ Cardinality(S) = StartCount
    /\ Cardinality(S) <= Cardinality(FreeSlots)
    /\ Unmap(ToStop, S)
    /\ syncPc' = "sleep"
    /\ activeRead' = {}
    /\ UNCHANGED <<storeVars, redisVars, markup, notifCount, phase, cmd, local,
                   events>>
    /\ UNCHANGED <<input, output>>

\* _sync_loop: while self.running fails, the loop ends.
SyncExit ==
    /\ syncPc = "sleep"
    /\ phase \in {"stopping", "off"}
    /\ syncPc' = "exited"
    /\ UNCHANGED <<storeVars, redisVars, markup, notifCount, phase, threads,
                   activeRead, cmd, taskVars, events>>
    /\ UNCHANGED <<input, output>>

\* (variant) stop() that clears the maps without setting the events.
SignalAll_None == stopEv' = stopEv

\* stop(), its first loop: every event of self.stop_events is set.
SignalAll ==
    stopEv' = [t \in Tasks |->
                  IF \E p \in Targets : threads[p] = t THEN TRUE ELSE stopEv[t]]

\* ThreadManager.stop up to the joins: running = False; self.lock is taken
\* and every stop event is set.  (_sync_threads, add_page and remove_page
\* wait for self.lock.)
Stop ==
    /\ phase = "on"
    /\ phase' = "stopping"
    /\ SignalAll
    /\ UNCHANGED <<storeVars, redisVars, markup, notifCount, threads, syncPc,
                   activeRead, cmd, pc, page, local, events>>
    /\ UNCHANGED <<input, output>>

\* ... and from the joins on: every thread is joined with a timeout of 5 s,
\* both maps are cleared, self.lock is given back.
StopJoin ==
    /\ phase = "stopping"
    /\ phase' = "off"
    /\ Unmap(Mapped, {})
    /\ UNCHANGED <<storeVars, redisVars, markup, notifCount, syncPc, activeRead,
                   cmd, local, events>>
    /\ UNCHANGED <<input, output>>

\* ThreadManager.pause_page, its first call: update_page_status(id, "paused")
\* (a failed update is swallowed).  The bot finds the page among the stored
\* ones and handles one command at a time.
PausePage(p, ok) ==
    /\ phase = "on"
    /\ cmd = <<"none", 0>>
    /\ status[p] # "absent"
    /\ Event
    /\ status' = IF ok THEN [status EXCEPT ![p] = "paused"] ELSE status
    /\ cmd' = <<"pause", p>>
    /\ UNCHANGED <<lastCheck, lastSuccess, errCount, total, redisVars, markup,
                   notifCount, phase, threads, syncPc, activeRead, taskVars>>
    /\ UNCHANGED <<input, output>>

\* ... and its second: remove_page, _stop_thread under self.lock.
RemovePage ==
    /\ cmd[1] = "pause"
    /\ phase # "stopping"
    /\ Unmap({cmd[2]} \cap Mapped, {})
    /\ cmd' = <<"none", 0>>
    /\ UNCHANGED <<storeVars, redisVars, markup, notifCount, phase, syncPc,
                   activeRead, local, events>>
    /\ UNCHANGED <<input, output>>

\* ThreadManager.resume_page: update_page_status(id, "active"), nothing else.
ResumePage(p, ok) ==
    /\ phase = "on"
    /\ cmd = <<"none", 0>>
    /\ status[p] = "paused"
    /\ Event
    /\ status' = IF ok THEN [status EXCEPT ![p] = "active"] ELSE status
    /\ UNCHANGED <<lastCheck, lastSuccess, errCount, total, redisVars, markup,
                   notifCount, mgrVars, taskVars>>
    /\ UNCHANGED <<input, output>>

\* (variant) add_page without its test of len(self.threads).
AddAdmits_NoCap == TRUE

\* ThreadManager.add_page: the test of the cap under self.lock.
AddAdmits == Cardinality(Mapped) < MaxThreads

\* The bot's /add command up to the store: the page gets a new id and
\* add_career_page writes its record (status active, never checked); a failed
\* write ends the command.
AddCommand(p, ok) ==
    /\ phase = "on"
    /\ cmd = <<"none", 0>>
    /\ status[p] = "absent"
    /\ Event
    /\ status' = IF ok THEN [status EXCEPT ![p] = "active"] ELSE status
    /\ cmd' = IF ok THEN <<"add", p>> ELSE cmd
    /\ UNCHANGED <<lastCheck, lastSuccess, errCount, total, redisVars, markup,
                   notifCount, phase, threads, syncPc, activeRead, taskVars>>
    /\ UNCHANGED <<input, output>>

\* ... and its call of ThreadManager.add_page: under self.lock, False when
\* the map is full, else _start_thread, which returns at once when the page
\* has an entry already.  (A start needs a free slot.)
AddPage ==
    /\ cmd[1] = "add"
    /\ phase # "stopping"
    /\ LET S == IF AddAdmits THEN {cmd[2]} \ Mapped ELSE {}
       IN /\ Cardinality(S) <= Cardinality(FreeSlots)
          /\ Unmap({}, S)
    /\ cmd' = <<"none", 0>>
    /\ UNCHANGED <<storeVars, redisVars, markup, notifCount, phase, syncPc,
                   activeRead, local, events>>
    /\ UNCHANGED <<input, output>>

\* -------------------------------------------------------------- environment

\* The page's interval has passed since last_check.
IntervalElapses(p) ==
    /\ lastCheck[p] = "recent"
    /\ lastCheck' = [lastCheck EXCEPT ![p] = "old"]
    /\ UNCHANGED <<status, lastSuccess, errCount, total, redisVars, markup,
                   notifCount, mgrVars, taskVars, events>>
    /\ UNCHANGED <<input, output>>

\* Redis drops scrape_lock:<id> when its EX time (the interval) is over.
ExpireLock(p) ==
    /\ lock[p] # NoTask
    /\ Event
    /\ lock' = [lock EXCEPT ![p] = NoTask]
    /\ UNCHANGED <<storeVars, seen, markup, notifCount, mgrVars, taskVars>>
    /\ UNCHANGED <<input, output>>

\* Redis drops seen_jobs:<id> when job_ttl has passed since the last EXPIRE.
ExpireSeen(p) ==
    /\ seen[p] # {}
    /\ Event
    /\ seen' = [seen EXCEPT ![p] = {}]
    /\ UNCHANGED <<storeVars, lock, markup, notifCount, mgrVars, taskVars>>
    /\ UNCHANGED <<input, output>>

\* The site changes the page: postings appear and disappear.  A posting whose
\* presence changes starts a new count of its batches.
EditMarkup(p, S) ==
    /\ status[p] # "absent"
    /\ S # markup[p]
    /\ Event
    /\ markup' = [markup EXCEPT ![p] = S]
    /\ notifCount' = [notifCount EXCEPT ![p] =
            [j \in Jobs |-> IF (j \in S) = (j \in markup[p]) THEN @[j] ELSE 0]]
    /\ UNCHANGED <<storeVars, redisVars, mgrVars, taskVars>>
    /\ UNCHANGED <<input, output>>

\* ------------------------------------------------- the scraper on its own

sysVars == <<status, lastCheck, lastSuccess, errCount, total, lock, seen, markup,
             notifCount, phase, threads, syncPc, activeRead, cmd,
             pc, page, stopEv, local, events>>

\* No page is stored and no manager runs.
NoMonitor ==
    /\ status = [p \in Targets |-> "absent"]
    /\ lastCheck = [p \in Targets |-> "never"]
    /\ lastSuccess = [p \in Targets |-> "never"]
    /\ events = 0
    /\ InitRest

\* The texts of a field: the non-empty strings of a letter and the bar, as
\* sequences of characters.
Chars == {"a", "|"}
Strings == UNION {[1..n -> Chars] : n \in 1..MaxLen}

\* What _extract_job_from_card takes from a card: title, company, url.
Records == [title : Strings, company : Strings, url : Strings]

\* Job.get_hash: md5 of f"{title}|{company}|{url}".  The digest is stood for
\* by the string it is taken of (md5 does not collide on strings this short).
GetHash(r) == r.title \o <<"|">> \o r.company \o <<"|">> \o r.url

\* scrape_jobs, the loop over the cards (scraper.py:283-298): the records
\* whose hash is not in seen_hashes, which the loop does not change.
NewJobs(cards, seen_hashes) == {r \in cards : GetHash(r) \notin seen_hashes}

\* Two postings of a page.
InitRecords ==
    /\ NoMonitor
    /\ input \in [op : {"records"}, r1 : Records, r2 : Records]
    /\ output = [done |-> "no"]

\* get_hash of both.
GetHashes ==
    /\ input.op = "records" /\ output.done = "no"
    /\ output' = [done |-> "hash", h1 |-> GetHash(input.r1),
                                   h2 |-> GetHash(input.r2)]
    /\ UNCHANGED <<sysVars, input>>

\* A cycle of a page that shows r1, the seen-set empty: scrape_jobs, then
\* add_seen_jobs_bulk with the hashes of what it returned
\* (thread_manager.py:86-105).
FirstCycle ==
    /\ input.op = "records" /\ output.done = "no"
    /\ input.r1 # input.r2
    /\ LET new == NewJobs({input.r1}, {})
       IN output' = [done |-> "first", first |-> new, second |-> {},
                     seen_jobs |-> {GetHash(r) : r \in new}]
    /\ UNCHANGED <<sysVars, input>>

\* The next cycle: the page shows r1 and r2 now, get_seen_jobs gives the set
\* the first cycle left.
SecondCycle ==
    /\ output.done = "first"
    /\ LET new == NewJobs({input.r1, input.r2}, output.seen_jobs)
       IN output' = [output EXCEPT !.done = "second", !.second = new,
                        !.seen_jobs = @ \cup {GetHash(r) : r \in new}]
    /\ UNCHANGED <<sysVars, input>>

NextRecords ==
    \/ GetHashes
    \/ FirstCycle
    \/ SecondCycle

SpecRecords == InitRecords /\ [][NextRecords]_vars

\* --------------------------------------------------- JobScraper, its calls

\* CSS selectors: job_card, and job_title standing for the three selectors
\* read inside a card (job_title, job_link, job_location); "none" is None.
CardSels == {".job", ".row"}
InCardSels == {"none", "h3"}

\* models.Selectors, a page's configuration.
Selectors ==
    [type : {"auto", "custom"}, job_card : CardSels \cup {"none"},
     job_title : InCardSels, use_playwright : BOOLEAN]

\* What SelectorDetector.detect_selectors gives on a markup: the four Nones
\* when it finds no container, else a job_card and the selectors in a card.
NoSelectors == [job_card |-> "none", job_title |-> "none"]
Detected == {NoSelectors} \cup [job_card : CardSels, job_title : InCardSels]

\* The selectors the loop over the cards can run with.
Keys == [job_card : CardSels, job_title : InCardSels]

\* A markup, by what the detector finds in it and by the postings that
\* soup.select and _extract_job_from_card give for each choice of selectors
\* (D = the sets of postings to choose from).  kind: "page", or how the
\* fetch ended without one ("none" = None, "empty" = a body of no
\* characters, "raise" = a RequestException).
Markup(D) == [kind : {"page"}, found : Detected, cards : [Keys -> D]]
NoHtml(kind) == [kind |-> kind, found |-> NoSelectors, cards |-> [k \in Keys |-> {}]]

\* fetch_page, its except branch: one call of Playwright.
Fallback(site) == [html |-> site.rendered, tried |-> <<"static", "rendered">>]

\* JobScraper.fetch_page(url, use_playwright=...): the markup and, in order,
\* the strategies tried.  site.static is what session.get answers,
\* site.rendered what _fetch_page_with_playwright returns.
FetchPage(site, use_playwright) ==
    IF use_playwright
    THEN [html |-> site.rendered, tried |-> <<"rendered">>]
    ELSE IF site.static.kind = "raise"
         THEN Fallback(site)
         ELSE [html |-> site.static, tried |-> <<"static">>]

\* "if not html": None or the empty string.
Falsy(html) == html.kind # "page"

\* How a fetch got its markup.
Via(f) == f.tried[Len(f.tried)]

\* JobScraper.detect_selectors(url): the detected selectors with
\* use_playwright (absent = False), the strategies tried, and how the markup
\* the answer was detected on was fetched ("none" when nothing was detected).
DetectSelectors(site) ==
    LET f1 == FetchPage(site, FALSE)
        f2 == FetchPage(site, TRUE)
        answer(sel, flag, tried, via) ==
            [job_card |-> sel.job_card, job_title |-> sel.job_title,
             use_playwright |-> flag, tried |-> tried, via |-> via]
    IN IF Falsy(f1.html)
       THEN answer(NoSelectors, FALSE, f1.tried, "none")
       ELSE IF f1.html.found.job_card # "none"
       THEN answer(f1.html.found, FALSE, f1.tried, Via(f1))
       ELSE IF /\ ~Falsy(f2.html) /\ f2.html # f1.html
               /\ f2.html.found.job_card # "none"
       THEN answer(f2.html.found, TRUE, f1.tried \o f2.tried, Via(f2))
       ELSE answer(NoSelectors, FALSE, f1.tried \o f2.tried, "none")

\* (variant) the loop over the cards runs with the job_title the call was
\* given, not with the detected one.
LoopSelectors_Stale(given, updated) == [updated EXCEPT !.job_title = given.job_title]

\* scrape_jobs: the loop over the cards reads the selectors object after the
\* update of lines 273-276.
LoopSelectors(given, updated) == updated

\* (variant) the update also marks the selectors as no longer automatic.
UpdateSelectors_Retype(selectors, detected) ==
    [selectors EXCEPT !.type = "custom",
                      !.job_card = detected.job_card,
                      !.job_title = detected.job_title]

\* scraper.py:273-276: the detected values are written into the selectors
\* object the caller passed.
UpdateSelectors(selectors, detected) ==
    [selectors EXCEPT !.job_card = detected.job_card,
                      !.job_title = detected.job_title]

\* JobScraper.scrape_jobs(page_id, url, selectors, seen_hashes): the hashes
\* of the list returned, the selectors object as the call leaves it, the
\* strategies tried, and how the markup the cards were read from was
\* fetched ("none" when the call returned before the loop).
ScrapeJobsOn(site, selectors, seen_hashes) ==
    LET f == FetchPage(site, selectors.use_playwright)
        auto == selectors.type = "auto" \/ selectors.job_card = "none"
        detected == f.html.found
        updated == IF auto THEN UpdateSelectors(selectors, detected)
                   ELSE selectors
        with == LoopSelectors(selectors, updated)
        key == [job_card |-> with.job_card, job_title |-> with.job_title]
    IN IF Falsy(f.html) \/ (auto /\ detected.job_card = "none")
       THEN [jobs |-> {}, selectors |-> selectors, tried |-> f.tried,
             via |-> "none"]
       ELSE [jobs |-> ScrapeJobs(f.html.cards[key], seen_hashes),
             selectors |-> updated, tried |-> f.tried, via |-> Via(f)]

\* What a site can answer: the request fails, or gives an empty body or a
\* page; Playwright gives None or a page.
Pages == Markup({Jobs})
Sites ==
    [static : {NoHtml("raise"), NoHtml("empty")} \cup Pages,
     rendered : {NoHtml("none")} \cup Pages]

\* A site that answers every fetch with the same page, whose cards vary
\* with the selectors.
SteadySites == {[static |-> m, rendered |-> m] : m \in Markup(SUBSET Jobs)}

\* One call: the bot's detection on a site, or a cycle's scrape_jobs with a
\* page's selectors and seen-set.
InitScraper ==
    /\ NoMonitor
    /\ input \in
          [op : {"detect"}, site : Sites]
          \cup [op : {"scrape"}, site : Sites, selectors : Selectors,
                seen_hashes : {{}}]
          \cup [op : {"scrape"}, site : SteadySites, selectors : Selectors,
                seen_hashes : SUBSET Jobs]
    /\ output = [done |-> "no"]

RunDetect ==
    /\ input.op = "detect" /\ output.done = "no"
    /\ output' = [done |-> "detect", r1 |-> DetectSelectors(input.site)]
    /\ UNCHANGED <<sysVars, input>>

RunScrape ==
    /\ input.op = "scrape" /\ output.done = "no"
    /\ output' = [done |-> "first",
                  r1 |-> ScrapeJobsOn(input.site, input.selectors,
                                      input.seen_hashes)]
    /\ UNCHANGED <<sysVars, input>>

\* scrape_jobs once more: the same site and seen-set, the selectors object
\* as the first call left it.
RunAgain ==
    /\ output.done = "first"
    /\ output' = [done |-> "second", r1 |-> output.r1,
                  r2 |-> ScrapeJobsOn(input.site, output.r1.selectors,
                                      input.seen_hashes)]
    /\ UNCHANGED <<sysVars, input>>

NextScraper ==
    \/ RunDetect
    \/ RunScrape
    \/ RunAgain

SpecScraper == InitScraper /\ [][NextScraper]_vars

\* ------------------------------------------- _extract_job_from_card, the loop

\* The tags of the title fallback, in the order of scraper.py:321.
Tags == <<"h1", "h2", "h3", "h4", "strong", "b">>

\* What a search inside a card gives: no element ("absent"), an element
\* whose text or href has no characters ("empty"), or one with a text
\* ("text").  TextOf: the text names the element it comes from, so that the
\* source of a field shows.
Found == {"absent", "empty", "text"}
TextOf(found, name) == IF found = "text" THEN <<name>> ELSE <<>>

\* A card: the element select_one(job_title) finds, the first element of
\* each tag, the element select_one(job_link) finds and its href, the first
\* anchor that has an href, and whether a call inside the extraction raises.
Cards ==
    [title_sel : Found, heads : [1..Len(Tags) -> Found], link_sel : Found,
     anchor : Found, raises : BOOLEAN]

\* The page's url, and the company _extract_company_name takes from it.
BaseUrl == <<"url">>
Company == <<"company">>

\* The selectors read inside a card, set or None.
CardSelectors == [job_title : InCardSels, job_link : {"none", "a"}]

\* scraper.py:313-317: the text of the element of the configured selector.
TitleBySelector(card, selectors) ==
    IF selectors.job_title # "none" /\ card.title_sel # "absent"
    THEN TextOf(card.title_sel, "title_sel") ELSE <<>>

\* scraper.py:320-325: the text of the first tag of the list that the card
\* has (the loop breaks there).
TitleByHeading(card) ==
    LET has == {k \in 1..Len(Tags) : card.heads[k] # "absent"}
        first == CHOOSE k \in has : \A j \in has : k <= j
    IN IF has = {} THEN <<>> ELSE TextOf(card.heads[first], Tags[first])

\* (variant) the headings are looked at before the configured selector.
Title_HeadingFirst(card, selectors) ==
    IF TitleByHeading(card) # <<>> THEN TitleByHeading(card)
    ELSE TitleBySelector(card, selectors)

Title(card, selectors) ==
    IF TitleBySelector(card, selectors) # <<>>
    THEN TitleBySelector(card, selectors)
    ELSE TitleByHeading(card)

\* urljoin(base_url, href) for the hrefs of the bound, which are absolute:
\* the href, and the base for an href of no characters.
UrlJoin(base, href) == IF href = <<>> THEN base ELSE href

\* scraper.py:332-346: the configured selector's href, else the first
\* anchor's, else the page's url.
JobUrl(card, selectors, base_url) ==
    IF selectors.job_link # "none" /\ card.link_sel = "text"
    THEN UrlJoin(base_url, TextOf(card.link_sel, "link_sel"))
    ELSE IF card.anchor # "absent"
    THEN UrlJoin(base_url, TextOf(card.anchor, "anchor"))
    ELSE base_url

\* _extract_job_from_card: a Job, None (no title), or an exception.
ExtractJobFromCard(card, selectors, base_url) ==
    IF card.raises
    THEN [kind |-> "raise", title |-> <<>>, company |-> <<>>, url |-> <<>>]
    ELSE IF Title(card, selectors) = <<>>
    THEN [kind |-> "none", title |-> <<>>, company |-> <<>>, url |-> <<>>]
    ELSE [kind |-> "job", title |-> Title(card, selectors),
          company |-> Company, url |-> JobUrl(card, selectors, base_url)]

\* (variant) the except clause of the loop ends the loop.
AfterRaise_Break(rest) == <<>>

\* scraper.py:296-298: except ... continue; the loop goes on with the cards
\* that follow.
AfterRaise(rest) == rest

\* scrape_jobs, the loop over job_cards (scraper.py:283-298): the list
\* new_jobs, in the order of the cards.
RECURSIVE CardLoop(_, _, _, _)
CardLoop(job_cards, selectors, url, seen_hashes) ==
    IF job_cards = <<>> THEN <<>>
    ELSE LET job == ExtractJobFromCard(Head(job_cards), selectors, url)
             rest == CardLoop(Tail(job_cards), selectors, url, seen_hashes)
         IN IF job.kind = "raise" THEN AfterRaise(rest)
            ELSE IF job.kind = "job" /\ GetHash(job) \notin seen_hashes
            THEN <<job>> \o rest
            ELSE rest

\* Cards whose title comes from the configured selector or from an h1, and
\* whose link is the page's url.
PlainCards ==
    {c \in Cards : /\ \A k \in 2..Len(Tags) : c.heads[k] = "absent"
                   /\ c.link_sel = "absent" /\ c.anchor = "absent"}

\* The hashes a seen-set can hold of them.
PlainHashes ==
    {GetHash([title |-> <<t>>, company |-> Company, url |-> BaseUrl]) :
        t \in {"title_sel", "h1"}}

\* One card for the extraction, or the cards of a page for the loop.
InitCards ==
    /\ NoMonitor
    /\ input \in
          [op : {"card"}, card : {c \in Cards : ~c.raises},
           selectors : CardSelectors]
          \cup [op : {"loop"},
                job_cards : UNION {[1..n -> PlainCards] : n \in 0..MaxCards},
                selectors : {x \in CardSelectors : x.job_link = "none"},
                seen_hashes : SUBSET PlainHashes]
    /\ output = [done |-> "no"]

RunExtract ==
    /\ input.op = "card" /\ output.done = "no"
    /\ output' = [done |-> "card",
                  job |-> ExtractJobFromCard(input.card, input.selectors, BaseUrl)]
    /\ UNCHANGED <<sysVars, input>>

RunLoop ==
    /\ input.op = "loop" /\ output.done = "no"
    /\ output' = [done |-> "loop",
                  new_jobs |-> CardLoop(input.job_cards, input.selectors,
                                        BaseUrl, input.seen_hashes)]
    /\ UNCHANGED <<sysVars, input>>

NextCards ==
    \/ RunExtract
    \/ RunLoop

SpecCards == InitCards /\ [][NextCards]_vars

\* ------------------------------------------ RedisManager, the lock keys

\* The keys scrape_lock:<id> with their time to live in seconds: 0 when the
\* key does not exist.  ran_out: the keys that expired since their last
\* release.  call, result: the last call and what it returned.
Durations == 1..MaxDuration

InitLock ==
    /\ NoMonitor
    /\ input = [op |-> "lock"]
    /\ output = [done |-> "lock", ttl |-> [p \in Targets |-> 0],
                 ran_out |-> {}, call |-> <<"none", 0, 0>>, result |-> FALSE]

\* (variant) SET without NX: the key and its expiry are written anyway.
SetNxEx_NoNX(ttl, p, d) == [ttl EXCEPT ![p] = d]

\* SET key "locked" NX EX d (redis_manager.py:185): written only when the
\* key does not exist.
SetNxEx(ttl, p, d) == IF ttl[p] = 0 THEN [ttl EXCEPT ![p] = d] ELSE ttl

\* RedisManager.acquire_page_lock(page_id, lock_duration)
AcquireCall(p, d) ==
    /\ input.op = "lock"
    /\ output' = [output EXCEPT
                     !.ttl = SetNxEx(output.ttl, p, d),
                     !.call = <<"acquire", p, d>>,
                     !.result = (output.ttl[p] = 0)]
    /\ UNCHANGED <<sysVars, input>>

\* RedisManager.release_page_lock(page_id): DEL.
ReleaseCall(p) ==
    /\ input.op = "lock"
    /\ output' = [output EXCEPT !.ttl[p] = 0, !.ran_out = @ \ {p},
                                  !.call = <<"release", p, 0>>,
                                  !.result = TRUE]
    /\ UNCHANGED <<sysVars, input>>

\* RedisManager.is_page_locked(page_id): EXISTS > 0.
IsPageLockedCall(p) ==
    /\ input.op = "lock"
    /\ output' = [output EXCEPT !.call = <<"locked", p, 0>>,
                                  !.result = (output.ttl[p] > 0)]
    /\ UNCHANGED <<sysVars, input>>

\* A second passes: Redis counts every key's time down and drops a key at 0.
SecondPasses ==
    /\ input.op = "lock"
    /\ \E p \in Targets : output.ttl[p] > 0
    /\ output' = [output EXCEPT
                     !.ttl = [p \in Targets |-> IF @[p] > 0 THEN @[p] - 1 ELSE 0],
                     !.ran_out = @ \cup {p \in Targets : output.ttl[p] = 1},
                     !.call = <<"tick", 0, 0>>,
                     !.result = FALSE]
    /\ UNCHANGED <<sysVars, input>>

NextLock ==
    \/ \E p \in Targets, d \in Durations : AcquireCall(p, d)
    \/ \E p \in Targets : ReleaseCall(p)
    \/ \E p \in Targets : IsPageLockedCall(p)
    \/ SecondPasses

SpecLock == InitLock /\ [][NextLock]_vars

\* ---------------------------------------- RedisManager, the seen-set keys

\* The keys seen_jobs:<id>: their members (the key exists when it has any),
\* their time to live in seconds (Persistent for a key without expiry), the
\* seconds since the last add_seen_jobs_bulk call for the target (capped at
\* JobTtl), and the call under way: its target and hashes after SADD and
\* before EXPIRE.
Persistent == 0 - 1
NoPending == <<0, {}>>

InitSeen ==
    /\ NoMonitor
    /\ input = [op |-> "seen"]
    /\ output = [done |-> "seen",
                 members |-> [p \in Targets |-> {}],
                 ttl |-> [p \in Targets |-> 0],
                 since |-> [p \in Targets |-> JobTtl],
                 pending |-> NoPending,
                 call |-> <<"none", 0>>]

\* SADD key h1 h2 ...: a key that did not exist is created without expiry.
SAdd(o, p, hashes) ==
    [o EXCEPT !.members[p] = @ \cup hashes,
              !.ttl[p] = IF o.members[p] = {} THEN Persistent ELSE @]

\* EXPIRE key seconds: nothing when the key does not exist.
Expire(o, p, seconds) ==
    IF o.members[p] = {} THEN o ELSE [o EXCEPT !.ttl[p] = seconds]

\* add_seen_jobs_bulk(page_id, job_hashes), up to SADD; with no hashes it
\* returns before any command.
BulkSAdd(p, hashes) ==
    /\ input.op = "seen"
    /\ output.pending = NoPending
    /\ output' = IF hashes = {}
                    THEN [output EXCEPT !.since[p] = 0,
                                        !.call = <<"bulk", p>>]
                    ELSE [SAdd(output, p, hashes) EXCEPT
                             !.since[p] = 0,
                             !.pending = <<p, hashes>>,
                             !.call = <<"sadd", p>>]
    /\ UNCHANGED <<sysVars, input>>

\* add_seen_jobs_bulk, EXPIRE and return.
BulkExpire ==
    /\ input.op = "seen"
    /\ output.pending # NoPending
    /\ output' = [Expire(output, output.pending[1], JobTtl) EXCEPT
                     !.pending = NoPending,
                     !.call = <<"bulk", output.pending[1]>>]
    /\ UNCHANGED <<sysVars, input>>

\* A second passes: keys with an expiry count down and are dropped at 0,
\* all their members at once.
SeenSecondPasses ==
    /\ input.op = "seen"
    /\ \E p \in Targets : output.ttl[p] > 0 \/ output.since[p] < JobTtl
    /\ output' = [output EXCEPT
          !.ttl = [p \in Targets |-> IF @[p] > 0 THEN @[p] - 1 ELSE @[p]],
          !.members = [p \in Targets |->
                          IF output.ttl[p] = 1 THEN {} ELSE @[p]],
          !.since = [p \in Targets |-> Min(@[p] + 1, JobTtl)],
          !.call = <<"tick", 0>>]
    /\ UNCHANGED <<sysVars, input>>

NextSeen ==
    \/ \E p \in Targets, hashes \in SUBSET Jobs : BulkSAdd(p, hashes)
    \/ BulkExpire
    \/ SeenSecondPasses

SpecSeen == InitSeen /\ [][NextSeen]_vars

\* ------------------------------------------- run(), the wait of the loop

\* The intervals a record may hold, in seconds; waits are in tenths of a
\* second, so that interval / 10 is exact.
MinInterval == 60
Intervals == {60, 90, 120, 299, 300, 301, 600, 3600}
TickSeconds == 30
RetrySeconds == 60

\* thread_manager.py:58  min(30, self.page.interval / 10)
LoopWait(interval) == Min(TickSeconds * 10, interval)

\* thread_manager.py:62  time.sleep(60)
RetryWait == RetrySeconds * 10

\* input.interval: the interval of the record in the store.  output: the
\* interval the iteration read into self.page, how the iteration ended
\* ("skip": not due; "cycle": _scrape_and_notify returned; "raise": an
\* exception reached the except of run) and the wait that followed.
InitWait ==
    /\ NoMonitor
    /\ \E i \in Intervals : input = [op |-> "wait", interval |-> i]
    /\ output = [done |-> "no"]

\* One pass of the while loop, from the read of the record to the wait.
Iterate(how) ==
    /\ input.op = "wait"
    /\ output' = [done |-> "iter", interval |-> input.interval, how |-> how,
                  wait |-> IF how = "raise" THEN RetryWait
                           ELSE LoopWait(input.interval)]
    /\ UNCHANGED <<sysVars, input>>

\* The record's interval is changed in the store.
SetInterval(i) ==
    /\ input.op = "wait"
    /\ input' = [input EXCEPT !.interval = i]
    /\ UNCHANGED <<sysVars, output>>

NextWait ==
    \/ \E how \in {"skip", "cycle", "raise"} : Iterate(how)
    \/ \E i \in Intervals : SetInterval(i)

SpecWait == InitWait /\ [][NextWait]_vars

\* ------------------------------------------- the interval of a record

DefaultInterval == 300

\* selector_detector.py:173: a text longer than this is penalised.
TooLong == 500

\* selector_detector.py:177: the text length is rewarded strictly between these.
BandLow == 50
BandHigh == 300

\* An argument interval=<text> of /add: ok when int() takes the text, n its
\* value.
IntervalArgs ==
    {[ok |-> FALSE, n |-> 0]} \cup
    {[ok |-> TRUE, n |-> k] : k \in {0 - 1, 59, 60, 3600}}
ArgLists == UNION {[1..n -> IntervalArgs] : n \in 0..MaxArgs}

\* (variant) /add without the test of the minimum.
TooShort_Never(n) == FALSE

\* telegram_handler.py:121  if interval < 60
TooShort(n) == n < MinInterval

\* The loop of add_command over its arguments, interval being the value so
\* far: the command returns at the first argument that int() refuses or that
\* is too short.
RECURSIVE ParseInterval(_, _)
ParseInterval(args, interval) ==
    IF args = <<>> THEN [reply |-> "ok", interval |-> interval]
    ELSE IF ~Head(args).ok THEN [reply |-> "invalid", interval |-> 0]
    ELSE IF TooShort(Head(args).n) THEN [reply |-> "short", interval |-> 0]
    ELSE ParseInterval(Tail(args), Head(args).n)

\* A document of career_pages: whether it exists, whether it has the field
\* interval, and the field.  CareerPage.to_dict always writes the field.
NoDoc == [exists |-> FALSE, keyed |-> FALSE, interval |-> 0]
ToDict(interval) == [exists |-> TRUE, keyed |-> TRUE, interval |-> interval]

\* CareerPage.from_dict: data.get('interval', 300)
FromDict(doc) == IF doc.keyed THEN doc.interval ELSE DefaultInterval

\* A target without a task.
NoMonitorThread == [running |-> FALSE, interval |-> 0, via |-> "none"]

\* input.docs: the store; output.task: the page object each task holds.
\* The store starts empty or with one record that has no interval field.
InitInterval ==
    /\ NoMonitor
    /\ \E old \in SUBSET {1} :
          input = [op |-> "interval",
                   docs |-> [p \in Targets |->
                               IF p \in old
                               THEN [exists |-> TRUE, keyed |-> FALSE, interval |-> 0]
                               ELSE NoDoc]]
    /\ output = [done |-> "interval",
                 task |-> [p \in Targets |-> NoMonitorThread],
                 reply |-> "none"]

\* /add <url> args for a new page p: the record is stored and add_page gives
\* the page object to a new task.
AddInterval(p, args) ==
    LET r == ParseInterval(args, DefaultInterval)
    IN /\ input.op = "interval"
       /\ ~input.docs[p].exists
       /\ IF r.reply = "ok"
          THEN /\ input' = [input EXCEPT !.docs[p] = ToDict(r.interval)]
               /\ output' = [output EXCEPT
                                !.task[p] = [running |-> TRUE,
                                             interval |-> r.interval,
                                             via |-> "add"],
                                !.reply = r.reply]
          ELSE /\ input' = input
               /\ output' = [output EXCEPT !.reply = r.reply]
       /\ UNCHANGED sysVars

\* _sync_threads starts a task with a page of get_active_career_pages.
SyncInterval(p) ==
    /\ input.op = "interval"
    /\ input.docs[p].exists /\ ~output.task[p].running
    /\ output' = [output EXCEPT
                     !.task[p] = [running |-> TRUE,
                                  interval |-> FromDict(input.docs[p]),
                                  via |-> "sync"]]
    /\ UNCHANGED <<sysVars, input>>

\* run(): self.page = get_career_page(self.page.id); the task ends when the
\* record is gone.
RefreshInterval(p) ==
    /\ input.op = "interval"
    /\ output.task[p].running
    /\ output' = [output EXCEPT
                     !.task[p] = IF input.docs[p].exists
                                 THEN [running |-> TRUE,
                                       interval |-> FromDict(input.docs[p]),
                                       via |-> "refresh"]
                                 ELSE NoMonitorThread]
    /\ UNCHANGED <<sysVars, input>>

\* /remove: delete_career_page.
RemoveInterval(p) ==
    /\ input.op = "interval"
    /\ input.docs[p].exists
    /\ input' = [input EXCEPT !.docs[p] = NoDoc]
    /\ UNCHANGED <<sysVars, output>>

NextInterval ==
    \/ \E p \in Targets, args \in ArgLists : AddInterval(p, args)
    \/ \E p \in Targets : SyncInterval(p)
    \/ \E p \in Targets : RefreshInterval(p)
    \/ \E p \in Targets : RemoveInterval(p)

SpecInterval == InitInterval /\ [][NextInterval]_vars

\* ------------------------------ FirebaseManager.update_last_check, alone

\* The calls of update_last_check for one page by the tasks that run on it.
\* output.error_count: the field in the store; output.read: what a caller
\* inside update_last_check(success=False) has read (NotRead outside);
\* output.failed: the update_last_check(success=False) calls that have
\* returned since the last update_last_check(success=True) did.
Callers == 1..NumCallers
NotRead == 0 - 1

InitCounter ==
    /\ NoMonitor
    /\ input = [op |-> "counter"]
    /\ output = [done |-> "counter", error_count |-> 0,
                 read |-> [c \in Callers |-> NotRead], failed |-> 0]

\* update_last_check(success=True): one update() with error_count = 0.
RecordSuccess(c) ==
    /\ input.op = "counter"
    /\ output.read[c] = NotRead
    /\ output' = [output EXCEPT !.error_count = 0, !.failed = 0]
    /\ UNCHANGED <<sysVars, input>>

\* update_last_check(success=False), the get() of the document
\* (firebase_manager.py:118-120).
RecordFailureRead(c) ==
    /\ input.op = "counter"
    /\ output.read[c] = NotRead
    /\ output.error_count < MaxFailures
    /\ output.failed
          + Cardinality({d \in Callers : output.read[d] # NotRead}) < MaxFailures
    /\ output' = [output EXCEPT !.read[c] = output.error_count]
    /\ UNCHANGED <<sysVars, input>>

\* ... and the update() with error_count = current_error_count + 1 (121-123).
RecordFailureWrite(c) ==
    /\ input.op = "counter"
    /\ output.read[c] # NotRead
    /\ output' = [output EXCEPT !.error_count = output.read[c] + 1,
                                  !.read[c] = NotRead,
                                  !.failed = @ + 1]
    /\ UNCHANGED <<sysVars, input>>

NextCounter ==
    \E c \in Callers :
        \/ RecordSuccess(c)
        \/ RecordFailureRead(c)
        \/ RecordFailureWrite(c)

SpecCounter == InitCounter /\ [][NextCounter]_vars

\* ------------------------------------------------------------ specification
\* The manager without the bot's /resume.
ManagerNoResume ==
    \/ Start
    \/ \E ok \in BOOLEAN : SyncRead(ok)
    \/ \E S \in SUBSET Targets : SyncApply(S)
    \/ SyncExit
    \/ Stop
    \/ StopJoin
    \/ \E p \in Targets, ok \in BOOLEAN : PausePage(p, ok)
    \/ RemovePage

Manager ==
    \/ ManagerNoResume
    \/ \E p \in Targets, ok \in BOOLEAN : ResumePage(p, ok)

Next ==
    \/ \E t \in Tasks : TaskStep(t)
    \/ Manager
    \/ \E p \in Targets : IntervalElapses(p)
    \/ \E p \in Targets : ExpireLock(p)
    \/ \E p \in Targets : ExpireSeen(p)
    \/ \E p \in Targets, S \in SUBSET Jobs : EditMarkup(p, S)

\* One stored page, with the failures of its calls, the expiry of its keys and
\* the edits of its markup.
Spec == Init /\ [][Next]_vars

\* A page for every target and more pages than max_threads, over a time
\* shorter than the pages' intervals and the TTLs of the Redis keys; the sites
\* do not change and the one event is not followed by a /resume.
NextSched ==
    \/ \E t \in Tasks : TaskStep(t)
    \/ ManagerNoResume

SpecSched == InitAll /\ [][NextSched]_vars

\* As many pages as max_threads and the bot's /add for one more, over a time
\* shorter than the intervals and the TTLs; the sites do not change.
NextAdmit ==
    \/ \E t \in Tasks : TaskStep(t)
    \/ Manager
    \/ \E p \in Targets, ok \in BOOLEAN : AddCommand(p, ok)
    \/ AddPage

SpecAdmit == InitAdmit /\ [][NextAdmit]_vars

\* Threads run: a monitor thread that can take a step takes one, the sync
\* loop wakes up and makes its pass, and a call that waits for self.lock
\* gets it.
Fairness ==
    /\ \A t \in Tasks : WF_vars(TaskStep(t))
    /\ WF_vars(\E ok \in BOOLEAN : SyncRead(ok))
    /\ WF_vars(\E S \in SUBSET Targets : SyncApply(S))
    /\ WF_vars(RemovePage)
    /\ WF_vars(AddPage)
    /\ WF_vars(StopJoin)

SpecAdmitFair == SpecAdmit /\ Fairness

\* The monitor threads run: one that can take a step takes one.
TaskFairness == \A t \in Tasks : WF_vars(TaskStep(t))

SpecFair == Spec /\ TaskFairness

\* ================================================================= claims

\* The tasks of page p that are inside the locked section.
InSection(p) == {t \in Tasks : page[t] = p /\ pc[t] \in LockedPcs}

\* C1: for every target, at most one task is inside the locked section of
\* _scrape_and_notify at any instant, however long a scrape lasts compared
\* with the lock's expiry.
C1_MutualExclusion == \A p \in Targets : Cardinality(InSection(p)) <= 1

\* The step of task t is the answer of acquire_page_lock.
AcquireStep(t) == pc[t] = "acquire" /\ pc'[t] # "acquire"

C3_NotifiedOnce ==
    \A p \in Targets : \A j \in markup[p] : notifCount[p][j] <= 1

\* The step of task t leaves position at.
Leaves(t, at) == pc[t] = at /\ pc'[t] # at

MappedNext == {p \in Targets : threads'[p] # NoTask}

C6_LockReleasedOnExit ==
    \A p \in Targets :
        lock[p] # NoTask => page[lock[p]] = p /\ pc[lock[p]] \in LockedPcs

\* C7: a cycle whose fetch failed on both strategies is recorded as a failure:
\* when the store takes its update, the error counter goes up by one and
\* last_success is not moved to the time of this check.
C7_FetchFailureRecorded ==
    [][\A t \in Tasks :
          Leaves(t, "update") /\ local[t].fetched = "nofetch" /\ events' = events =>
             /\ errCount'[page[t]] = errCount[page[t]] + 1
             /\ lastSuccess'[page[t]] # "current"]_vars

\* C8: a task whose stop event is clear and whose page is active in the store
\* does not end at the top of its loop, even when the read of the record
\* fails.
C8_StoreFailureKeepsTask ==
    [][\A t \in Tasks :
          pc[t] = "top" /\ ~stopEv[t] /\ status[page[t]] = "active" =>
             pc'[t] \notin {"done", "idle"}]_vars

\* C9: a cycle that does not get the lock changes nothing: last_check,
\* last_success, the error counter, the total, the seen-set and the lock are
\* as before, nothing is notified, and the cycle is over.
C9_SkipChangesNothing ==
    [][\A t \in Tasks :
          AcquireStep(t) /\ local'[t].acquired = "lost" =>
             /\ UNCHANGED <<lastCheck, lastSuccess, errCount, total, seen, lock,
                            notifCount>>
             /\ pc'[t] = "top"]_vars

\* A cycle has been skipped while another task holds the page's lock.
C9_Witness ==
    \E t \in Tasks :
        /\ local[t].acquired = "lost"
        /\ lock[page[t]] \notin {NoTask, t}

\* The step is a call of task t that fails.
Fault(t) == TaskStep(t) /\ events' # events

\* C10: a failure inside one target's task leaves the reconciliation loop
\* where it is, leaves the running map as it is, and does not move, stop or
\* signal the task of any other target.
C10_FaultIsolated ==
    [][\A t \in Tasks :
          Fault(t) =>
             /\ UNCHANGED <<phase, syncPc, threads>>
             /\ \A u \in Tasks \ {t} :
                    pc'[u] = pc[u] /\ stopEv'[u] = stopEv[u] /\ page'[u] = page[u]]_vars

\* The scrape of one target's task has raised while the task of another
\* target runs and the reconciliation loop is alive.
C10_Witness ==
    \E t, u \in Tasks :
        /\ pc[t] = "hread"
        /\ page[u] \notin {NoPage, page[t]}
        /\ threads[page[u]] = u /\ pc[u] \notin {"idle", "done"}
        /\ syncPc \in {"apply", "sleep"}

\* C11: whatever the interleaving of _sync_threads, add_page, remove_page,
\* pause_page and resume_page, the running map never has more than
\* max_threads entries.
C11_CapInvariant == Cardinality(Mapped) <= MaxThreads

\* add_page is called for a new page while the map is full.
C11_Witness ==
    /\ cmd[1] = "add" /\ phase = "on"
    /\ cmd[2] \notin Mapped
    /\ Cardinality(Mapped) = MaxThreads

\* Page p is active, the manager runs and fewer than max_threads other pages
\* are active.
HasRoom(p) ==
    /\ status[p] = "active"
    /\ phase = "on"
    /\ Cardinality({q \in Targets \ {p} : status[q] = "active"}) < MaxThreads

\* C12: a start that the cap deferred is retried: a page that from some
\* moment on stays active while the manager runs and fewer than max_threads
\* other pages are active gets a task from a later pass; and no step that
\* starts a page's task leaves the map with more than max_threads entries.
C12_DeferredStartRetried ==
    /\ \A p \in Targets : []<>(~HasRoom(p) \/ threads[p] # NoTask)
    /\ [][\A p \in Targets :
             threads[p] = NoTask /\ threads'[p] # NoTask =>
                Cardinality(MappedNext) <= MaxThreads]_vars

\* The page added beyond the cap has a task after one of the first pages
\* was paused.
C12_Witness ==
    \E p, q \in Targets :
        /\ p > MaxThreads /\ threads[p] # NoTask /\ pc[threads[p]] # "done"
        /\ status[q] = "paused" /\ threads[q] = NoTask
        /\ Cardinality(Mapped) = MaxThreads

\* C13: a task calls acquire_page_lock only from the top of a loop iteration
\* whose read of the live record gave status active, the seen-set is read
\* and scrape_jobs is called only after that acquire, and an iteration that
\* reads another status takes no lock and ends the loop.
C13_StatusGate ==
    [][\A t \in Tasks :
          /\ pc'[t] = "acquire" /\ pc[t] # "acquire" =>
                 pc[t] = "top" /\ status[page[t]] = "active"
          /\ pc'[t] = "getseen" /\ pc[t] # "getseen" => pc[t] = "acquire"
          /\ pc'[t] = "scrape" /\ pc[t] # "scrape" => pc[t] = "getseen"
          /\ pc[t] = "top" /\ status[page[t]] # "active" /\ pc'[t] # "top" =>
                 pc'[t] \in {"done", "idle"} /\ lock' = lock]_vars

\* A thread whose read found the page paused has left its loop: the pause
\* is the only event so far, and remove_page has not reached the thread.
C13_Witness ==
    \E t \in Tasks :
        /\ pc[t] = "done" /\ ~stopEv[t]
        /\ status[page[t]] = "paused"
        /\ lock[page[t]] = NoTask
        /\ events = 1

Stopped(t) == pc[t] \in {"done", "idle"}

\* C14: a task whose stop event is set reaches the end of run(), and so does
\* one whose read of the record finds it not active; a thread that has
\* ended runs no further cycle, whatever the page's status becomes: its
\* slot is left only by the start of a new thread.
C14_StopReached ==
    /\ \A t \in Tasks : stopEv[t] ~> Stopped(t)
    /\ [][\A t \in Tasks :
             /\ pc[t] = "top" /\ status[page[t]] # "active" /\ TaskStep(t)
                    => Stopped(t)'
             /\ pc[t] = "done" => Stopped(t)'
             /\ pc[t] = "idle" /\ pc'[t] # "idle" =>
                    /\ pc'[t] = "top" /\ ~stopEv'[t]
                    /\ threads'[page'[t]] = t
                    /\ threads[page'[t]] = NoTask]_vars

\* stop() set the event of a running thread, and the thread has ended while
\* its record is still active.
C14_Witness ==
    \E t \in Tasks :
        /\ pc[t] = "done" /\ stopEv[t]
        /\ status[page[t]] = "active"
        /\ phase = "stopping"

\* C15: stop() sets the stop event of every thread in the map before it
\* joins any (the map is untouched by that step); the joins kill nothing (a
\* thread that has not ended keeps its place and its event stays set), and
\* when stop() returns the map of threads and the map of events are empty.
C15_StopSignalsThenJoins ==
    /\ [](phase = "stopping" => \A p \in Mapped : stopEv[threads[p]])
    /\ [][phase = "on" /\ phase' = "stopping" =>
             /\ threads' = threads /\ pc' = pc
             /\ \A p \in Mapped : stopEv'[threads[p]]]_vars
    /\ [][phase = "stopping" /\ phase' = "off" =>
             /\ MappedNext = {}
             /\ \A t \in Tasks :
                   pc[t] \notin {"done", "idle"} =>
                      pc'[t] = pc[t] /\ stopEv'[t]]_vars

\* stop() has returned with the map empty while a thread it signalled is
\* still inside its scrape: the join timed out and the thread lives on.
C15_Witness ==
    /\ phase = "off" /\ Mapped = {}
    /\ \E t \in Tasks : pc[t] \in LockedPcs /\ stopEv[t]

\* C16: of two cycles in a row, the first on a page that shows the postings
\* S1 with the seen-set empty, the second on the page showing S1 and k more
\* postings, the first returns the |S1| postings and the second exactly the
\* k added ones (here S1 = {r1} and the added posting is r2).
C16_TwoCycles ==
    output.done = "second" =>
        /\ output.first = {input.r1}
        /\ output.second = {input.r2}

\* C17: two records have the same hash exactly when they agree in title,
\* company and url, whatever the texts are, the bar included.
C17_FingerprintIdentity ==
    output.done = "hash" =>
        ((output.h1 = output.h2) <=>
            /\ input.r1.title = input.r2.title
            /\ input.r1.company = input.r2.company
            /\ input.r1.url = input.r2.url)

\* C18: scrape_jobs run twice on the same markup, from the same selectors
\* and seen-set, returns the same set of hashes both times, although the
\* first run may have written the detected selectors into the object.
C18_ExtractionIdempotent ==
    output.done = "second" => output.r2.jobs = output.r1.jobs

\* Both runs returned postings, and the first run changed the selectors.
C18_Witness ==
    /\ output.done = "second"
    /\ output.r1.jobs # {}
    /\ output.r1.selectors # input.selectors
    /\ input.selectors.type = "custom"

\* The call has run: a detection, or a first scrape_jobs.
Ran == output.done \in {"detect", "first"}

\* The use_playwright the call was made with (a detection has none).
Flag == input.op = "scrape" /\ input.selectors.use_playwright

\* The call looks for containers: a detection does, scrape_jobs does when
\* the type is auto or no job_card is given.
Detects ==
    \/ input.op = "detect"
    \/ input.selectors.type = "auto"
    \/ input.selectors.job_card = "none"

\* How often the call tried the strategy.
Tries(strategy) ==
    Cardinality({i \in 1..Len(output.r1.tried) : output.r1.tried[i] = strategy})

\* C19: without the rendered flag a call tries Static first; it tries
\* Rendered at most once, and does try it when Static gives no markup or
\* when the detector finds no container in the static markup; with the flag
\* set it never tries Static.
C19_FetchEscalation ==
    Ran =>
        /\ ~Flag => output.r1.tried[1] = "static"
        /\ Tries("rendered") <= 1
        /\ ~Flag /\ Falsy(input.site.static) => Tries("rendered") >= 1
        /\ ~Flag /\ Detects /\ ~Falsy(input.site.static)
              /\ input.site.static.found.job_card = "none"
              => Tries("rendered") >= 1
        /\ Flag => Tries("static") = 0

\* The use_playwright of the configuration the call leaves: what the
\* detection answers (telegram_handler.py:161), or the selectors object
\* after scrape_jobs.
FlagAfter ==
    IF input.op = "detect" THEN output.r1.use_playwright
    ELSE output.r1.selectors.use_playwright

\* C20: when the markup a detection or an extraction succeeded on was
\* fetched by Rendered, the configuration ends with the rendered flag set.
C20_RenderedFlagSet ==
    Ran /\ output.r1.via = "rendered" => FlagAfter

\* The markup the first scrape_jobs call fetched.
Fetched == FetchPage(input.site, input.selectors.use_playwright).html

\* C21: on fetched markup scrape_jobs returns before the loop over the
\* cards only if no job_card is at hand once detection has run, neither in
\* the selectors it was given nor from the detector; with a job_card given
\* and nothing detected, the cards of the given job_card are extracted.
C21_UndetectableOnlyWithoutSelector ==
    output.done = "first" /\ ~Falsy(Fetched) =>
        /\ output.r1.via = "none" =>
               /\ input.selectors.job_card = "none"
               /\ Fetched.found.job_card = "none"
        /\ input.selectors.job_card # "none"
              /\ Fetched.found.job_card = "none" =>
               /\ output.r1.via # "none"
               /\ output.r1.jobs =
                     ScrapeJobs(Fetched.cards[[job_card |-> input.selectors.job_card,
                                               job_title |-> input.selectors.job_title]],
                                input.seen_hashes)

\* The cards without the one at place i.
Without(cards, i) ==
    [k \in 1..(Len(cards) - 1) |-> IF k < i THEN cards[k] ELSE cards[k + 1]]

\* The card gives no record: no title, or its extraction raises.
Dropped(card) == ExtractJobFromCard(card, input.selectors, BaseUrl).kind # "job"

\* C22: a card from which no title can be taken, or whose extraction
\* raises, is dropped and the loop goes on: the list returned is the one
\* the same page without that card gives.
C22_BadCardDropped ==
    output.done = "loop" =>
        \A i \in 1..Len(input.job_cards) :
            Dropped(input.job_cards[i]) =>
                output.new_jobs = CardLoop(Without(input.job_cards, i),
                                           input.selectors, BaseUrl,
                                           input.seen_hashes)

\* A card that raises stood between two cards that gave new postings.
C22_Witness ==
    /\ output.done = "loop"
    /\ Len(input.job_cards) = 3
    /\ input.job_cards[2].raises
    /\ Len(output.new_jobs) = 2

\* The tags of the fallback that come before tag k are not in the card.
NoneBefore(card, k) == \A j \in 1..(k - 1) : card.heads[j] = "absent"

\* C23: a record that _extract_job_from_card returns has a title of at
\* least one character: the text of the configured title selector's element
\* when that gives one, else the text of the first of h1, h2, h3, h4,
\* strong, b in the card; and a link of at least one character: the href of
\* the configured link selector's element when that gives one, else the
\* href of the first anchor, else the page's url.
C23_FallbackChains ==
    output.done = "card" /\ output.job.kind = "job" =>
        LET card == input.card
            bySel == input.selectors.job_title # "none" /\ card.title_sel = "text"
            linkBySel == input.selectors.job_link # "none" /\ card.link_sel = "text"
        IN /\ output.job.title # <<>>
           /\ bySel => output.job.title = <<"title_sel">>
           /\ ~bySel => \E k \in 1..Len(Tags) :
                            /\ card.heads[k] = "text" /\ NoneBefore(card, k)
                            /\ output.job.title = <<Tags[k]>>
           /\ output.job.url # <<>>
           /\ linkBySel => output.job.url = <<"link_sel">>
           /\ ~linkBySel /\ card.anchor = "text" => output.job.url = <<"anchor">>
           /\ ~linkBySel /\ card.anchor # "text" => output.job.url = BaseUrl

\* A record whose title came from the third tag of the fallback although a
\* title selector is configured, and whose link is the page's url.
C23_Witness ==
    /\ output.done = "card" /\ output.job.kind = "job"
    /\ input.selectors.job_title # "none" /\ input.card.title_sel = "empty"
    /\ output.job.title = <<"h3">>
    /\ input.selectors.job_link # "none" /\ input.card.link_sel = "empty"
    /\ output.job.url = BaseUrl

C25_SharedExpiryReset ==
    [][/\ \A p \in Targets :
             (output'.call = <<"bulk", p>> /\ output'.members[p] # {}) =>
                output'.ttl[p] = JobTtl
       /\ output'.call[1] = "tick" =>
             \A p \in Targets :
                /\ output'.members[p] \in {output.members[p], {}}
                /\ (output.members[p] # {} /\ output'.members[p] = {}) =>
                       output.since[p] + 1 >= JobTtl]_vars

\* C26: a task attempts the lock, and so starts a cycle, only when the
\* target's last_check is absent or at least one interval old; and a cycle
\* that got to its record step leaves last_check at the time of this cycle,
\* so that the next cycle of the target is at least one interval later.
C26_CyclesIntervalApart ==
    [][\A t \in Tasks :
          /\ AcquireStep(t) => lastCheck[page[t]] \in {"never", "old"}
          /\ Leaves(t, "update") => lastCheck'[page[t]] = "recent"]_vars

\* C27: a reconciliation pass stops a task only when the task's target is
\* not among the targets the pass read as active: the tasks of the targets
\* it read keep their entry and their stop event stays as it was, also when
\* the pass read more active targets than max_threads.
C27_NoPreemption ==
    [][syncPc = "apply" /\ syncPc' = "sleep" =>
          \A p \in Mapped :
             (threads'[p] # threads[p] \/ stopEv'[threads[p]] # stopEv[threads[p]])
                => p \notin activeRead]_vars

\* After a pass more pages are active than max_threads, one of them waits
\* without a task, and a task of the full map is inside a cycle, unsignalled.
C27_Witness ==
    /\ syncPc = "sleep" /\ phase = "on"
    /\ Cardinality(Mapped) = MaxThreads
    /\ \E q \in Targets \ Mapped : status[q] = "active"
    /\ \E p \in Mapped :
          /\ status[p] = "active"
          /\ pc[threads[p]] \in LockedPcs /\ ~stopEv[threads[p]]

\* C28: the wait that ends a loop iteration is min(30 s, interval / 10) of
\* the interval the iteration read from the store, however the iteration
\* ended, an exception included.
C28_LoopWait ==
    [][output'.done = "iter" /\ output' # output =>
          /\ output'.interval = input.interval
          /\ output'.wait = Min(300, output'.interval)]_vars

\* C29: the page object of every running task has an interval of at least
\* the minimum of 60 seconds, whatever /add, reads of the store and
\* refreshes of the live record came before.
C29_IntervalAtLeastMinimum ==
    output.done = "interval" =>
       \A p \in Targets :
          output.task[p].running => output.task[p].interval >= MinInterval

\* A task runs on a record it has read again from the store, which /add
\* wrote with the smallest interval it takes; another /add was refused for
\* its interval.
C29_Witness ==
    /\ output.done = "interval"
    /\ output.reply = "short"
    /\ \E p \in Targets :
          /\ output.task[p].running /\ output.task[p].via = "refresh"
          /\ output.task[p].interval = MinInterval

\* C30: a cycle in which the detector finds no container is an ordinary
\* cycle: scrape_jobs returns the empty list without raising, the cycle
\* goes on to record its check and to release the lock, the error counter is
\* not incremented (it is reset, and last_success moved, when the store takes
\* the update), and the task is back at the top of its loop.
C30_DetectionMissIsNormal ==
    [][\A t \in Tasks :
          /\ Leaves(t, "scrape") /\ local'[t].fetched = "miss" =>
                local'[t].new_jobs = {} /\ pc'[t] = "update"
          /\ Leaves(t, "update") /\ local[t].fetched = "miss" =>
                /\ errCount'[page[t]] <= errCount[page[t]]
                /\ events' = events =>
                       errCount'[page[t]] = 0 /\ lastSuccess'[page[t]] = "current"
                /\ pc'[t] = "release"
          /\ Leaves(t, "release") /\ local[t].fetched = "miss" =>
                pc'[t] = "top" /\ lock'[page[t]] # t]_vars

\* A cycle with a detection miss has recorded its check and is about to
\* release the lock; the record shows a successful check.
C30_Witness ==
    \E t \in Tasks :
        /\ pc[t] = "release" /\ local[t].fetched = "miss" /\ ~stopEv[t]
        /\ lock[page[t]] = t
        /\ errCount[page[t]] = 0
        /\ lastCheck[page[t]] = "recent" /\ lastSuccess[page[t]] = "current"

\* C31: the list of new records that the loop over the cards of one page
\* returns has no two records with the same fingerprint.
C31_NoDuplicateInBatch ==
    output.done = "loop" =>
       \A i, j \in 1..Len(output.new_jobs) :
          GetHash(output.new_jobs[i]) = GetHash(output.new_jobs[j]) => i = j

\* C32: the release_page_lock of a task deletes no lock that another task
\* holds: when a task releases, the lock of its page is its own or absent.
C32_ReleaseOwnLockOnly ==
    [][\A t \in Tasks :
          pc[t] \in {"release", "hrelease"} /\ pc'[t] \notin {"release", "hrelease"}
             => lock[page[t]] \in {t, NoTask}]_vars

\* C33: once stop() has returned (and start() is not called again) the
\* running map gets no new entry, neither from a reconciliation pass nor
\* from add_page.
C33_NoStartAfterStop ==
    [][phase = "off" /\ phase' = "off" =>
          \A p \in Targets : threads[p] = NoTask => threads'[p] = NoTask]_vars

\* C34: a reconciliation pass that reads a target as active while the
\* target's entry in the running map is a task that has ended leaves the
\* target with a running task.
C34_EndedTaskReplaced ==
    [][syncPc = "apply" /\ syncPc' = "sleep" /\ phase = "on" =>
          \A p \in activeRead :
             threads[p] # NoTask /\ pc[threads[p]] = "done" =>
                threads'[p] # NoTask /\ pc'[threads'[p]] \notin {"done", "idle"}]_vars

\* C35: a reconciliation pass whose read of the active targets fails works
\* with a desired set that keeps every task of a target that is active in
\* the store: the targets the pass will stop (those with an entry outside
\* the set) are not active.
C35_FailedReadKeepsTasks ==
    [][(syncPc' = "apply" /\ syncPc \in {"read", "sleep"} /\ events' # events) =>
          (\A p \in Mapped \ activeRead' : status[p] # "active")]_vars

C37_CountsConsecutiveFailures ==
    (output.done = "counter" /\ \A c \in Callers : output.read[c] = NotRead)
       => output.error_count = output.failed

\* C38: when pause_page returns the target has no entry in the running
\* map; from then on no step gives an entry to the target while its stored
\* status is paused, whatever reconciliation pass runs beside the pause; and
\* resume_page, which sets the status back to active, changes no entry.
C38_PausedStaysUnmonitored ==
    [][/\ (cmd[1] = "pause" /\ cmd'[1] = "none") => threads'[cmd[2]] = NoTask
       /\ \A p \in Targets :
             /\ (status[p] = "paused" /\ status'[p] = "active") =>
                    threads' = threads
             /\ (threads[p] = NoTask /\ threads'[p] # NoTask) =>
                    (status[p] # "paused" \/ cmd = <<"pause", p>>)]_vars

\* The step is a first call of scrape_jobs.
ScrapeCall == output.done = "no" /\ output'.done = "first"

\* C39, as stated: scrape_jobs leaves the seen-set, the lock, the record in
\* the store and all counters as they were and notifies nothing, and besides
\* the list it returns (and the fetch) it has no effect: the selectors
\* object it was given is after the call as it was before.
C39_OnlyReturnsAndFetches ==
    [][ScrapeCall =>
          /\ UNCHANGED <<sysVars, input>>
          /\ output'.r1.selectors = input.selectors]_vars

\* C39, amended: scrape_jobs leaves the seen-set, the lock, the record in
\* the store and all counters as they were and notifies nothing; besides the
\* list it returns (and the fetch) its one effect is on the selectors object
\* it was given, in memory: when it looked for containers and found one, the
\* job_card and job_title of the object are the detected ones; type and
\* use_playwright are as given, and without a detection the whole object is.
C39_NoPersistence ==
    [][ScrapeCall =>
          /\ UNCHANGED <<sysVars, input>>
          /\ output'.r1.selectors.type = input.selectors.type
          /\ output'.r1.selectors.use_playwright = input.selectors.use_playwright
          /\ (~Detects \/ output'.r1.via = "none") =>
                 output'.r1.selectors = input.selectors
          /\ (Detects /\ output'.r1.via # "none") =>
                 /\ output'.r1.selectors.job_card = Fetched.found.job_card
                 /\ output'.r1.selectors.job_title = Fetched.found.job_title]_vars

\* A call has returned records and has left other selectors in the object
\* than it was given; nothing is monitored, locked, seen or counted.
C39_Witness ==
    /\ output.done = "first"
    /\ output.r1.jobs # {}
    /\ output.r1.selectors # input.selectors
    /\ \A p \in Targets :
          seen[p] = {} /\ lock[p] = NoTask /\ total[p] = 0 /\ errCount[p] = 0

\* ---------------------------------------------------------------------
\* SelectorDetector._score_job_container, alone
\* ---------------------------------------------------------------------

\* selector_detector.py:163: the keywords the score counts.
job_keywords == {"apply", "position", "location", "full-time", "part-time",
                 "remote", "hybrid", "salary"}

\* str.lower() on a word.
Lower(w) == IF w = "Apply" THEN "apply" ELSE IF w = "Remote" THEN "remote" ELSE w

\* len() of the shortest text that holds the words ws.
RECURSIVE WordsLen(_)
WordsLen(ws) ==
    IF ws = {} THEN 0
    ELSE LET w == CHOOSE x \in ws : TRUE
             WordLen ==
                 CASE Lower(w) = "apply" -> 5
                   [] Lower(w) \in {"remote", "hybrid", "salary"} -> 6
                   [] Lower(w) \in {"position", "location", "engineer"} -> 8
                   [] OTHER -> 9
         IN  WordLen + WordsLen(ws \ {w})

\* A candidate: the words in elem.get_text() (the keywords, two of them also
\* capitalised, and a word that is none), the length of the text (around the
\* limits of lines 173 and 177, and not less than its words need), and
\* whether elem.find('a') finds a hyperlink.
Candidates ==
    LET TextWords == job_keywords \cup {"Apply", "Remote", "engineer"}
        TextLengths == {0, 30, 49, 50, 51, 150, 299, 300, 301, 499, 500, 501, 900}
    IN  {e \in [words : SUBSET TextWords, len : TextLengths, link : BOOLEAN] :
            WordsLen(e.words) <= e.len}

\* (variant) the long-text penalty is left out.
Penalty_None(len) == 0

\* selector_detector.py:173-174.
Penalty(len) == IF len > TooLong THEN 2 ELSE 0

\* selector_detector.py:157-180.
_score_job_container(elem) ==
    LET text == {Lower(w) : w \in elem.words}
    IN  Cardinality({k \in job_keywords : k \in text})
          + (IF elem.link THEN 2 ELSE 0)
          - Penalty(elem.len)
          + (IF BandLow < elem.len /\ elem.len < BandHigh THEN 1 ELSE 0)

InitScore ==
    /\ NoMonitor
    /\ \E e \in Candidates : input = [op |-> "score", elem |-> e]
    /\ output = [done |-> "no"]

ScoreCall ==
    /\ input.op = "score"
    /\ output.done = "no"
    /\ output' = [done |-> "score", score |-> _score_job_container(input.elem)]
    /\ UNCHANGED <<sysVars, input>>

SpecScore == InitScore /\ [][ScoreCall]_vars

\* The keywords the statement names.
StatedKeywords == {"apply", "location", "remote", "full-time", "part-time",
                   "hybrid", "salary"}

\* The sum of the statement over a set of keywords.
StatedScore(keywords, elem) ==
    Cardinality({k \in keywords : \E w \in elem.words : Lower(w) = k})
      + (IF elem.link THEN 2 ELSE 0)
      - (IF elem.len > 500 THEN 2 ELSE 0)
      + (IF elem.len > 50 /\ elem.len < 300 THEN 1 ELSE 0)

\* C40, as stated: the score of a candidate is the number of the keywords
\* apply, location, remote, full-time, part-time, hybrid, salary in its
\* lower-cased text, plus 2 with a hyperlink, minus 2 with a text longer
\* than 500, plus 1 with a text length strictly between 50 and 300, and
\* nothing else.
C40_ScoreAsStated ==
    output.done = "score" =>
        output.score = StatedScore(StatedKeywords, input.elem)

\* C40, amended: the same sum with the keyword position counted as well:
\* the score is the number of the eight keywords apply, position, location,
\* full-time, part-time, remote, hybrid, salary in the lower-cased text,
\* plus 2 with a hyperlink, minus 2 with a text longer than 500, plus 1 with
\* a text length strictly between 50 and 300, and nothing else.
C40_ScoreWithPosition ==
    output.done = "score" =>
        output.score =
            StatedScore(StatedKeywords \cup {"position"}, input.elem)

\* A candidate with a capitalised keyword, the word position, a hyperlink
\* and a text longer than 500 has been scored.
C40_Witness ==
    /\ output.done = "score"
    /\ {"Apply", "position"} \subseteq input.elem.words
    /\ input.elem.link
    /\ input.elem.len > 500
    /\ output.score >= 2

====
